---------------------------- MODULE Spec2Model ----------------------------
(***************************************************************************)
(* Forecast pipeline core of the timeseries automation agent:              *)
(*   src/src/forecasting/models.py   baseline forecaster primitives        *)
(*   src/src/data_preparation/transformers.py   lag / calendar features    *)
(*   src/src/pipeline.py             resolver and orchestrator             *)
(*   src/src/reporting/logging.py    database and Notion sinks             *)
(*                                                                         *)
(* Prices are integers (EUR/MWh rounded to units); timestamps are hours    *)
(* since the epoch.  A pandas Series is a record [index, values] of two    *)
(* sequences of equal length; a DataFrame is a sequence of row records.    *)
(* An exception is a record [type, origin]: the Python class and the       *)
(* place that raises it.                                                   *)
(***************************************************************************)
EXTENDS Integers, Sequences, FiniteSets, TLC

VARIABLES
    \* ---- one call of ForecastPipeline.run --------------------------------
    settings,     \* truthiness of each credential of settings.apis
    has_upload,   \* the notifier object has a callable upload_file
    today,        \* date.today() as a day ordinal
    horizon,      \* the argument of run()
    pc,           \* position of the run
    feed,         \* what the live feed answered (NoCall before/without a call)
    feed_calls,   \* number of calls of fetch_spot_prices
    frame,        \* the local variable frame of run()
    data_source,  \* provenance returned by _load_price_frame
    result,       \* ForecastResult (or None)
    metrics,      \* metrics bundle (or None)
    message,      \* Slack text (or None)
    report_path,  \* path returned by render_forecast_plot (or None)
    log,          \* collaborator calls made so far, in order, with outcome
    error,        \* exception that left run() (or None)
    output,       \* PipelineOutput returned by run() (or None)
    posted,       \* texts the notifier was handed by post_message, in order
    \* ---- one call of a forecaster primitive ------------------------------
    fc_series,    \* the series argument
    fc_horizon,   \* the horizon argument
    fc_pc,        \* "input" before the call, "called" after it
    fc_out,       \* what the call produced
    \* ---- the relational store of record_forecast_run ---------------------
    db,           \* the tables forecast_runs and forecast_values
    db_before,    \* the store as it was before the first run
    db_log,       \* the calls of record_forecast_run so far, with outcome
    \* ---- calls of _generate_synthetic_frame ------------------------------
    syn_calls,    \* the calls so far: arguments and the frame returned
    syn_rng,      \* the local generator rng of the latest call, as the call left it
    \* ---- one generator returned by rolling_forecast -----------------------
    roll_args,    \* series, horizon, window_size and step_size of the call
    roll_gen,     \* the generator object: where its loop stands
    roll_passes,  \* what each iteration over the returned object has yielded
    \* ---- chart renders into one output directory -------------------------
    clock,        \* datetime.now(UTC), in whole seconds
    plot_files,   \* the files of the output directory: path and what was drawn
    renders,      \* the paths render_forecast_plot has returned, in order
    \* ---- one call of _maybe_commit_to_github ------------------------------
    gh_pc,        \* position inside the commit step
    gh_repo,      \* the repository: content sha of each destination path
    gh_http,      \* the requests sent, in order, with the status answered
    gh_sha        \* existing_sha of the commit in progress (or None)

pvars == <<settings, has_upload, today, horizon, pc, feed, feed_calls, frame,
           data_source, result, metrics, message, report_path, log, error,
           output, posted>>
fvars == <<fc_series, fc_horizon, fc_pc, fc_out>>
dvars == <<db, db_before, db_log>>
svars == <<syn_calls, syn_rng>>
rvars == <<roll_args, roll_gen, roll_passes>>
cvars == <<clock, plot_files, renders>>
gvars == <<gh_pc, gh_repo, gh_http, gh_sha>>
ovars == <<rvars, cvars, gvars>>
vars == <<pvars, fvars, dvars, svars, ovars>>

None == [none |-> TRUE]

(***************************************************************************)
(* Bounds of the model.                                                    *)
(***************************************************************************)
\* longest series handed to a forecaster primitive
MaxLen == 4
\* largest price value in a series handed to a forecaster primitive
MaxVal == 2
\* largest horizon handed to a forecaster primitive
MaxFcHorizon == 5

(***************************************************************************)
(* Exceptions.                                                             *)
(***************************************************************************)
\* models.py:33  raise ValueError("Series must contain at least 'horizon' values")
InsufficientDataError == [type |-> "ValueError", origin |-> "naive_forecast"]
\* numpy.repeat with a negative count (models.py:34)
NegativeRepeatError == [type |-> "ValueError", origin |-> "numpy.repeat"]
\* pandas.Series(values, index) with len(values) # len(index) (models.py:34)
LengthMismatchError == [type |-> "ValueError", origin |-> "pandas.Series"]

(***************************************************************************)
(* pandas.Series primitives.                                               *)
(***************************************************************************)
MkSeries(idx, vals) == [index |-> idx, values |-> vals]

SLen(s) == Len(s.values)

\* positions 1..n as the default RangeIndex 0..n-1
RangeIndex(n) == [i \in 1..n |-> i - 1]

\* s.iloc[a:b] on 0-based half-open positions already clipped to 0..len
ILocSlice(s, a, b) ==
    IF b <= a THEN MkSeries(<<>>, <<>>)
    ELSE MkSeries(SubSeq(s.index, a + 1, b), SubSeq(s.values, a + 1, b))

\* a Python slice bound (possibly negative) clipped into 0..n
ClipBound(k, n) ==
    IF k < 0 THEN (IF n + k < 0 THEN 0 ELSE n + k)
    ELSE (IF k > n THEN n ELSE k)

\* Series.tail(n): iloc[0:0] when n = 0, iloc[-n:] otherwise
SeriesTail(s, n) ==
    IF n = 0 THEN MkSeries(<<>>, <<>>)
    ELSE ILocSlice(s, ClipBound(-n, SLen(s)), SLen(s))

\* np.repeat(x, n) for n >= 0
Repeat(x, n) == [i \in 1..n |-> x]

\* series.iloc[-1], the value naive_forecast repeats
NaiveLevel(series, h) == series.values[SLen(series)]

\* the prediction repeated once per holdout value instead of horizon times
NaiveForecastClipped(series, h) ==
    LET y_true == SeriesTail(series, h) IN
    IF SLen(y_true) = 0 THEN [ok |-> FALSE, error |-> InsufficientDataError]
    ELSE [ok |-> TRUE,
          y_true |-> y_true,
          y_pred |-> MkSeries(y_true.index, Repeat(NaiveLevel(series, h), SLen(y_true)))]

\* naive_forecast(series, horizon)
NaiveForecast(series, h) ==
    LET y_true == SeriesTail(series, h) IN
    IF SLen(y_true) = 0 THEN [ok |-> FALSE, error |-> InsufficientDataError]
    ELSE IF h < 0 THEN [ok |-> FALSE, error |-> NegativeRepeatError]
    ELSE IF h # SLen(y_true) THEN [ok |-> FALSE, error |-> LengthMismatchError]
    ELSE [ok |-> TRUE,
          y_true |-> y_true,
          y_pred |-> MkSeries(y_true.index, Repeat(NaiveLevel(series, h), h))]

\* models.py:41  raise ValueError("test_size must be positive")
TestSizeNotPositiveError == [type |-> "ValueError", origin |-> "train_test_split.positive"]
\* models.py:43  raise ValueError("test_size must be smaller than the series length")
TestSizeTooLargeError == [type |-> "ValueError", origin |-> "train_test_split.smaller"]

\* the upper check with > in place of >=
TrainTestSplitAllowsWhole(series, test_size) ==
    IF test_size <= 0 THEN [ok |-> FALSE, error |-> TestSizeNotPositiveError]
    ELSE IF test_size > SLen(series)
    THEN [ok |-> FALSE, error |-> TestSizeTooLargeError]
    ELSE [ok |-> TRUE,
          train |-> ILocSlice(series, 0, SLen(series) - test_size),
          test |-> ILocSlice(series, SLen(series) - test_size, SLen(series))]

\* the training slice cut at -test_size + 1 instead of -test_size
TrainTestSplitOverlapping(series, test_size) ==
    IF test_size <= 0 THEN [ok |-> FALSE, error |-> TestSizeNotPositiveError]
    ELSE IF test_size >= SLen(series)
    THEN [ok |-> FALSE, error |-> TestSizeTooLargeError]
    ELSE [ok |-> TRUE,
          train |-> ILocSlice(series, 0, ClipBound(1 - test_size, SLen(series))),
          test |-> ILocSlice(series, SLen(series) - test_size, SLen(series))]

\* train_test_split(series, test_size)
TrainTestSplit(series, test_size) ==
    IF test_size <= 0 THEN [ok |-> FALSE, error |-> TestSizeNotPositiveError]
    ELSE IF test_size >= SLen(series)
    THEN [ok |-> FALSE, error |-> TestSizeTooLargeError]
    ELSE [ok |-> TRUE,
          train |-> ILocSlice(series, 0, SLen(series) - test_size),
          test |-> ILocSlice(series, SLen(series) - test_size, SLen(series))]

\* pd.concat([a, b]) of two Series
Concat(a, b) == MkSeries(a.index \o b.index, a.values \o b.values)

(***************************************************************************)
(* Error metrics.  A mean is kept exact as the pair <<sum, count>>; the    *)
(* pair <<0, 0>> is the mean of nothing (NaN).  rmse is the square root of *)
(* the mean it carries.                                                    *)
(***************************************************************************)
Abs(x) == IF x < 0 THEN 0 - x ELSE x

RECURSIVE SumSeq(_)
SumSeq(q) == IF q = <<>> THEN 0 ELSE Head(q) + SumSeq(Tail(q))

\* (y_true - y_pred) at position i (both carry the same index)
Err(res, i) == res.y_true.values[i] - res.y_pred.values[i]

\* ForecastResult.rmse: sqrt(mean(e^2))
Rmse(res) ==
    [sqrt_of |-> <<SumSeq([i \in 1..SLen(res.y_true) |-> Err(res, i) * Err(res, i)]),
                   SLen(res.y_true)>>]

\* ForecastResult.mae: mean(|e|)
Mae(res) == <<SumSeq([i \in 1..SLen(res.y_true) |-> Abs(Err(res, i))]), SLen(res.y_true)>>

\* the quotient taken at every position, the mask left out
MapeUnmasked(res) ==
    [times |-> 100,
     mean_of |-> [i \in 1..SLen(res.y_true) |->
                     <<Abs(Err(res, i)), Abs(res.y_true.values[i])>>]]

\* ForecastResult.mape: mean over the positions with y_true # 0 of |e / y_true|,
\* times 100; each term is kept as the pair <<|e|, |y_true|>>
Mape(res) ==
    [times |-> 100,
     mean_of |-> SelectSeq([i \in 1..SLen(res.y_true) |->
                               <<Abs(Err(res, i)), Abs(res.y_true.values[i])>>],
                           LAMBDA term : term[2] # 0)]

\* ForecastPipeline._collect_metrics; delta_pct is the exact quotient <<num, den>>
CollectMetrics(res) ==
    LET latest == res.y_pred.values[SLen(res.y_pred)]
        previous == IF SLen(res.y_true) > 1
                    THEN res.y_true.values[SLen(res.y_true) - 1]
                    ELSE latest
        delta_pct == IF previous # 0
                     THEN <<(latest - previous) * 100, previous>>
                     ELSE <<0, 1>>
    IN  [latest |-> latest, previous |-> previous, delta_pct |-> delta_pct,
         rmse |-> Rmse(res), mae |-> Mae(res), mape |-> Mape(res)]

\* the direction test with > in place of >=
QuotPositive(q) == (q[1] > 0 /\ q[2] > 0) \/ (q[1] < 0 /\ q[2] < 0)

\* sign of an exact quotient is non-negative
QuotNonNeg(q) == (q[1] >= 0 /\ q[2] > 0) \/ (q[1] <= 0 /\ q[2] < 0)

\* ForecastPipeline._build_message: the fields the text is formatted from
BuildMessage(m) ==
    [direction |-> IF QuotNonNeg(m.delta_pct) THEN "up" ELSE "down",
     latest |-> m.latest, delta_pct |-> m.delta_pct,
     rmse |-> m.rmse, mae |-> m.mae, mape |-> m.mape]

\* run() lines 54-56 once the split is accepted: the forecast and its metrics
ScoredForecast(prices, h) ==
    LET split == TrainTestSplit(prices, h)
        res == NaiveForecast(Concat(split.train, split.test), h)
    IN  [res |-> res, metrics |-> CollectMetrics(res)]

(***************************************************************************)
(* DataFrame cells and the feature transformers.                           *)
(***************************************************************************)
\* a present cell and the missing cell (NaN / NaT)
Val(v) == [ok |-> TRUE, v |-> v]
NaN == [ok |-> FALSE, v |-> 0]

\* lags=[1, 24] in run()
LagShort == 1
LagLong == 24
HoursPerDay == 24
DaysPerWeek == 7
\* dt.weekday >= 5
WeekendFrom == 5

\* frame["SpotPrice"].shift(lag) at position i: the cell of position i - lag
ShiftedPrice(fr, lag, i) ==
    IF i - lag >= 1 /\ i - lag <= Len(fr) THEN fr[i - lag].SpotPrice ELSE NaN

\* add_lag_features(frame, "SpotPrice", lags=[1, 24]): two columns are added,
\* the others are kept
AddLagFeatures(fr) ==
    [i \in 1..Len(fr) |->
        [SpotPrice_lag_1 |-> ShiftedPrice(fr, LagShort, i),
         SpotPrice_lag_24 |-> ShiftedPrice(fr, LagLong, i)] @@ fr[i]]

\* add_calendar_features(frame, "DateTime"): hour, weekday and is_weekend of each
\* timestamp (day, month and weekofyear are further functions of the same
\* timestamp and are present exactly when it is)
AddCalendarFeatures(fr) ==
    [i \in 1..Len(fr) |->
        [hour |-> fr[i].DateTime.v % HoursPerDay,
         weekday |-> ((fr[i].DateTime.v \div HoursPerDay) + DaysPerWeek - 1) % DaysPerWeek,
         is_weekend |-> (((fr[i].DateTime.v \div HoursPerDay) + DaysPerWeek - 1)
                            % DaysPerWeek) >= WeekendFrom] @@ fr[i]]

\* frame.dropna(): keep the rows without a missing cell; the index is kept
DropNa(fr) ==
    SelectSeq(fr, LAMBDA r : r.DateTime.ok /\ r.SpotPrice.ok
                             /\ r.SpotPrice_lag_1.ok /\ r.SpotPrice_lag_24.ok)

\* frame["SpotPrice"] as a Series
PriceColumn(fr) ==
    MkSeries([i \in 1..Len(fr) |-> fr[i].idx], [i \in 1..Len(fr) |-> fr[i].SpotPrice.v])

(***************************************************************************)
(* Synthetic generation.                                                   *)
(***************************************************************************)
\* hours = max(horizon + 48, 72)
SynExtraHours == 48
SynMinHours == 72
\* base = 60 + 5 * sin(2 pi i / 24)
SynBase == 60
\* trend = linspace(-2, 2, hours)
SynTrendSpan == 4

\* round(5 * sin(2 pi k / 24)) for k = 0..23
SinWave ==
    <<0, 1, 3, 4, 4, 5, 5, 5, 4, 4, 3, 1, 0, -1, -3, -4, -4, -5, -5, -5, -4, -4, -3, -1>>

Max(a, b) == IF a >= b THEN a ELSE b

\* the i-th draw of rng.normal(0, 1.5, hours) for the generator seeded with
\* seed: a fixed function of (seed, i)
SynNoise(seed, i) == ((seed + 3 * i * i + i) % 7) - 3

\* one day of history on top of the horizon, no floor
SynHoursOneDay(h) == h + HoursPerDay

\* the number of hours without the floor of 72
SynHoursNoFloor(h) == h + SynExtraHours

\* pipeline.py:122  hours = max(horizon + 48, 72)
SynHours(h) == Max(h + SynExtraHours, SynMinHours)

\* np.random.default_rng(seed): a new generator that has drawn nothing
DefaultRng(seed) == [seed |-> seed, drawn |-> 0]

\* the generator of the previous call kept and drawn from again
SyntheticRngReused(target_date) ==
    IF syn_rng = None THEN DefaultRng(target_date) ELSE syn_rng

\* pipeline.py:125: each call seeds a generator of its own from the date
SyntheticRng(target_date) == DefaultRng(target_date)

\* the i-th value (from 0) that rng.normal(0, 1.5, hours) draws next
Draw(rng, i) == SynNoise(rng.seed, rng.drawn + i)

\* the generator after it has drawn n values
Advance(rng, n) == [seed |-> rng.seed, drawn |-> rng.drawn + n]

\* ForecastPipeline._generate_synthetic_frame(target_date, horizon)
GenerateSyntheticFrame(target_date, h) ==
    LET hours == SynHours(h)
        start == target_date * HoursPerDay - (hours - 1)
    IN  [k \in 1..hours |->
            [idx |-> k - 1,
             DateTime |-> Val(start + (k - 1)),
             SpotPrice |-> Val(SynBase + SinWave[((k - 1) % HoursPerDay) + 1]
                               + ((SynTrendSpan * (k - 1)) \div (hours - 1)) - 2
                               + Draw(SyntheticRng(target_date), k - 1)),
             Source |-> "synthetic"]]

(***************************************************************************)
(* Data source resolver.                                                   *)
(***************************************************************************)
\* no call of the live feed was made
NoCall == [kind |-> "none"]

\* frame.columns of pd.DataFrame(raw_prices)
Columns(rows) == UNION {DOMAIN rows[i] : i \in 1..Len(rows)}

\* pd.to_datetime / pd.to_numeric with errors="coerce" on one raw cell
Coerce(raw) == IF raw.parses THEN Val(raw.v) ELSE NaN

\* the position sort_values("DateTime") gives row i: after every row of an
\* earlier DateTime (rows of equal DateTime keep their order)
SortedPosition(rows, i) ==
    1 + Cardinality({j \in 1..Len(rows) :
                        \/ rows[j].DateTime.v < rows[i].DateTime.v
                        \/ (rows[j].DateTime.v = rows[i].DateTime.v /\ j < i)})

\* the rows rearranged so that row i stands at position at[i]
Permute(rows, at) == [p \in 1..Len(rows) |-> rows[CHOOSE i \in 1..Len(rows) : at[i] = p]]

\* frame.sort_values("DateTime")
SortByDateTime(rows) ==
    CHOOSE sorted \in {Permute(rows, at) :
                        at \in {[i \in 1..Len(rows) |-> SortedPosition(rows, i)]}} : TRUE

\* frame.reset_index(drop=True)
ResetIndex(rows) == [i \in 1..Len(rows) |-> [idx |-> i - 1] @@ rows[i]]

\* one cell of pd.DataFrame(raw_prices): missing when the record lacks the key
RawCell(row, col) == IF col \in DOMAIN row THEN Coerce(row[col]) ELSE NaN

\* pipeline.py:110-115: select the two columns, coerce, drop unparseable rows,
\* sort by DateTime, reset the index
CleanFeedFrame(rows) ==
    LET coerced == [i \in 1..Len(rows) |->
                        [DateTime |-> RawCell(rows[i], "DateTime"),
                         SpotPrice |-> RawCell(rows[i], "SpotPrice")]]
        kept == SelectSeq(coerced, LAMBDA r : r.DateTime.ok /\ r.SpotPrice.ok)
    IN  ResetIndex(SortByDateTime(kept))

\* the acceptance test with >= in place of >
FeedFrameSufficesNonStrict(fr, h) == Len(fr) >= h

\* the frame is accepted as live data: len(frame) > horizon
FeedFrameSuffices(fr, h) == Len(fr) > h

\* the credential check left out
CredentialAlwaysConfigured(key) == TRUE

\* pipeline.py:100: the live feed is tried only with a truthy credential
CredentialConfigured(key) == key

\* ForecastPipeline._load_price_frame(horizon), given the truthiness of the
\* credential and the answer the live feed gives when it is called
LoadPriceFrame(key, answer, target_date, h) ==
    IF ~CredentialConfigured(key)
    THEN [frame |-> GenerateSyntheticFrame(target_date, h), data_source |-> "synthetic",
          calls |-> 0]
    ELSE IF answer.kind = "raise"
    THEN [frame |-> GenerateSyntheticFrame(target_date, h), data_source |-> "synthetic",
          calls |-> 1]
    ELSE IF {"DateTime", "SpotPrice"} \subseteq Columns(answer.rows)
            /\ FeedFrameSuffices(CleanFeedFrame(answer.rows), h)
    THEN [frame |-> CleanFeedFrame(answer.rows), data_source |-> "api", calls |-> 1]
    ELSE [frame |-> GenerateSyntheticFrame(target_date, h), data_source |-> "synthetic",
          calls |-> 1]

(***************************************************************************)
(* Inputs of a run.                                                        *)
(***************************************************************************)
\* horizons from -1 up to this one, plus 24 and 25, where the synthetic length
\* max(horizon + 48, 72) changes regime
MaxSmallHorizon == 2
\* unparseable rows a feed answer may carry
MaxBadRows == 1
Horizons == ((0 - 1)..MaxSmallHorizon) \cup {LagLong, LagLong + 1}

\* date.today().toordinal(): the day of the run
Dates == {738000}

\* the records a feed answer is made of: n parseable hourly records of the target
\* date onwards, in ascending or descending time order or with the last hour
\* sent twice ("dup"), after bad unparseable ones (an unparseable DateTime or an
\* unparseable SpotPrice in turn)
FeedRows(n, bad, shape, target_date) ==
    [i \in 1..(bad + n) |->
        IF i <= bad
        THEN [DateTime |-> [parses |-> (i % 2 = 0), v |-> target_date * HoursPerDay],
              SpotPrice |-> [parses |-> (i % 2 = 1), v |-> 0]]
        ELSE LET k == CASE shape = "asc" -> i - bad - 1
                         [] shape = "desc" -> n - (i - bad)
                         [] shape = "dup" -> IF i - bad = n /\ n >= 2 THEN n - 2
                                             ELSE i - bad - 1
             IN
             [DateTime |-> [parses |-> TRUE, v |-> target_date * HoursPerDay + k],
              SpotPrice |-> [parses |-> TRUE, v |-> 40 + ((k * k + 2 * k) % 9)]]]

\* the same records under other keys: the required columns are missing
ForeignRows(n, target_date) ==
    [i \in 1..n |->
        [HourUTC |-> [parses |-> TRUE, v |-> target_date * HoursPerDay + i - 1],
         Price |-> [parses |-> TRUE, v |-> 40]]]

\* the lengths of a feed answer worth telling apart for horizon h
FeedLens(h) == {n \in {0, h, h + 1, h + LagLong, h + LagLong + 1} : n >= 0}

\* the time orders tried for an answer of n parseable records
FeedShapes(n, h) == IF n = h + LagLong + 1 THEN {"asc", "desc", "dup"} ELSE {"asc"}

\* fetch_spot_prices(key, query, target_date): raises, or returns records; an
\* answer is described by how it is made
FeedAnswers(h) ==
    {[kind |-> "raise"]}
        \cup {[kind |-> "data", keys |-> "foreign", n |-> Max(h, 0) + LagLong + 1,
               bad |-> 0, shape |-> "asc"]}
        \cup {a \in [kind : {"data"}, keys : {"required"}, n : FeedLens(h),
                     bad : 0..MaxBadRows, shape : {"asc", "desc", "dup"}] :
                a.shape \in FeedShapes(a.n, h)}

\* the records of an answer (none when the call raises)
AnswerRows(answer, target_date) ==
    IF answer.kind # "data" THEN <<>>
    ELSE IF answer.keys = "foreign" THEN ForeignRows(answer.n, target_date)
    ELSE FeedRows(answer.n, answer.bad, answer.shape, target_date)

SettingsSpace ==
    [nordpool_api_key : BOOLEAN, slack_token : BOOLEAN, notion_token : BOOLEAN,
     notion_database_id : BOOLEAN, github_token : BOOLEAN, github_repo : BOOLEAN]

(***************************************************************************)
(* ForecastPipeline.run, one collaborator call per step.                   *)
(***************************************************************************)
\* pipeline.py:53  raise ValueError("Not enough observations ...")
NotEnoughObservationsError == [type |-> "ValueError", origin |-> "run"]
\* whatever a collaborator raises
CollaboratorError(call) == [type |-> "Exception", origin |-> call]

Logged(call, ok) == [call |-> call, ok |-> ok]

FcIdle ==
    /\ fc_series = MkSeries(<<>>, <<>>)
    /\ fc_horizon = 0
    /\ fc_pc = "idle"
    /\ fc_out = None

\* the store is not looked at
DbIdle ==
    /\ db = [runs |-> <<>>, values |-> <<>>]
    /\ db_before = db
    /\ db_log = <<>>

\* no call of _generate_synthetic_frame is recorded
SynIdle ==
    /\ syn_calls = <<>>
    /\ syn_rng = None

\* no generator, no chart render and no commit step is looked at
OthersIdle ==
    /\ roll_args = None /\ roll_gen = None /\ roll_passes = <<>>
    /\ clock = 0 /\ plot_files = {} /\ renders = <<>>
    /\ gh_pc = "idle" /\ gh_repo = None /\ gh_http = <<>> /\ gh_sha = None

Init ==
    /\ settings \in SettingsSpace
    /\ has_upload \in BOOLEAN
    /\ today \in Dates
    /\ horizon \in Horizons
    /\ pc = "resolve"
    /\ feed = NoCall
    /\ feed_calls = 0
    /\ frame = <<>>
    /\ data_source = "none"
    /\ result = None
    /\ metrics = None
    /\ message = None
    /\ report_path = None
    /\ log = <<>>
    /\ error = None
    /\ output = None
    /\ posted = <<>>
    /\ FcIdle
    /\ DbIdle
    /\ SynIdle
    /\ OthersIdle

\* run() line 48: frame, data_source = self._load_price_frame(horizon); the
\* answer is what the feed gives if the resolver calls it
Resolve ==
    /\ pc = "resolve"
    /\ \E answer \in FeedAnswers(horizon) :
        \E loaded \in {LoadPriceFrame(settings.nordpool_api_key,
                                      [kind |-> answer.kind,
                                       rows |-> AnswerRows(answer, today)],
                                      today, horizon)} :
          /\ feed' = IF loaded.calls = 0 THEN NoCall ELSE answer
          /\ feed_calls' = feed_calls + loaded.calls
          /\ frame' = loaded.frame
          /\ data_source' = loaded.data_source
    /\ pc' = "shape"
    /\ UNCHANGED <<settings, has_upload, today, horizon, result, metrics, message,
                   report_path, log, error, output,
                   posted, fvars, dvars, svars, ovars>>

\* the VALIDATE condition with < in place of <=
TooFewRowsStrict(fr, h) == Len(fr) < h

\* the VALIDATE condition of run() line 52
TooFewRows(fr, h) == Len(fr) <= h

\* run() lines 49-53: features, dropna, and the VALIDATE check
Shape ==
    /\ pc = "shape"
    /\ \E calendar \in {AddCalendarFeatures(frame)} :
       \E lagged \in {AddLagFeatures(calendar)} :
       \E shaped \in {DropNa(lagged)} :
          /\ frame' = shaped
          /\ IF TooFewRows(shaped, horizon)
             THEN pc' = "raised" /\ error' = NotEnoughObservationsError
             ELSE pc' = "forecast" /\ error' = error
    /\ UNCHANGED <<settings, has_upload, today, horizon, feed, feed_calls, data_source,
                   result, metrics, message, report_path, log, output,
                   posted, fvars, dvars, svars, ovars>>

\* run() lines 54-57: split, forecast, metrics, message
Forecast ==
    /\ pc = "forecast"
    /\ \E prices \in {PriceColumn(frame)} :
       \E split \in {TrainTestSplit(prices, horizon)} :
          IF ~split.ok
          THEN /\ pc' = "raised" /\ error' = split.error
               /\ UNCHANGED <<result, metrics, message>>
          ELSE \E res \in {NaiveForecast(Concat(split.train, split.test), horizon)} :
               IF ~res.ok
               THEN /\ pc' = "raised" /\ error' = res.error
                    /\ UNCHANGED <<result, metrics, message>>
               ELSE \E m \in {CollectMetrics(res)} :
                    /\ pc' = "notify" /\ error' = error
                    /\ result' = [y_true |-> res.y_true, y_pred |-> res.y_pred]
                    /\ metrics' = m
                    /\ message' = BuildMessage(m)
    /\ UNCHANGED <<settings, has_upload, today, horizon, feed, feed_calls, frame,
                   data_source, report_path, log, output,
                   posted, fvars, dvars, svars, ovars>>

\* the steps with database persistence moved ahead of the chart upload
StepAfterPersistFirst(step) ==
    CASE step = "notify" -> "render"
      [] step = "render" -> "persist"
      [] step = "persist" -> "upload"
      [] step = "upload" -> "sync"
      [] step = "sync" -> "commit"
      [] step = "commit" -> "return"

\* run() lines 58-68: the step that follows each step
StepAfter(step) ==
    CASE step = "notify" -> "render"
      [] step = "render" -> "upload"
      [] step = "upload" -> "persist"
      [] step = "persist" -> "sync"
      [] step = "sync" -> "commit"
      [] step = "commit" -> "return"

\* render_forecast_plot wrapped in a try/except like the later steps
PropagatesNotifyOnly(call) == call \in {"post_message"}

\* post_message wrapped in a try/except like the later steps
PropagatesRenderOnly(call) == call \in {"render_forecast_plot"}

\* record_forecast_run called without its try/except
PropagatesRecordToo(call) ==
    call \in {"post_message", "render_forecast_plot", "record_forecast_run"}

\* the calls run() makes outside any try/except: their exception leaves run()
Propagates(call) == call \in {"post_message", "render_forecast_plot"}

\* _maybe_upload_chart line 136: callable(upload) and settings.apis.slack_token
UploadGate(callable_upload, slack_token) == callable_upload /\ slack_token

\* the Notion gate checking the token alone
NotionGateTokenOnly(token, database_id) == token

\* sync_to_notion line 139: not (not token or not database_id)
NotionGate(token, database_id) == ~(~token \/ ~database_id)

\* _maybe_commit_to_github line 176: not (not token or not repo)
GithubGate(token, repo) == ~(~token \/ ~repo)

\* one collaborator call made at `step`, returning or raising
CallStep(step, call) ==
    \E ok \in BOOLEAN :
        /\ log' = Append(log, Logged(call, ok))
        /\ IF ok \/ ~Propagates(call)
           THEN pc' = StepAfter(step) /\ error' = error
           ELSE pc' = "raised" /\ error' = CollaboratorError(call)

\* a gated step whose gate is closed
SkipStep(step) == pc' = StepAfter(step) /\ UNCHANGED <<log, error>>

\* run() line 58: self.slack_notifier.post_message(...)
Notify ==
    /\ pc = "notify"
    /\ CallStep("notify", "post_message")
    /\ posted' = Append(posted, message)
    /\ UNCHANGED <<settings, has_upload, today, horizon, feed, feed_calls, frame,
                   data_source, result, metrics, message, report_path, output, fvars,
                   dvars, svars, ovars>>

\* run() lines 59-64: report_path = render_forecast_plot(...)
Render ==
    /\ pc = "render"
    /\ CallStep("render", "render_forecast_plot")
    /\ report_path' = IF pc' = "raised" THEN report_path
                      ELSE [dir |-> "reports/plots", date |-> today]
    /\ UNCHANGED <<settings, has_upload, today, horizon, feed, feed_calls, frame,
                   data_source, result, metrics, message, output,
                   posted, fvars, dvars, svars, ovars>>

\* run() line 65: self._maybe_upload_chart(report_path)
UploadChart ==
    /\ pc = "upload"
    /\ IF UploadGate(has_upload, settings.slack_token)
       THEN CallStep("upload", "upload_file")
       ELSE SkipStep("upload")
    /\ UNCHANGED <<settings, has_upload, today, horizon, feed, feed_calls, frame,
                   data_source, result, metrics, message, report_path, output,
                   posted, fvars, dvars, svars, ovars>>

\* _persist_run lines 154-163: record_forecast_run(...) inside try/except
RecordRun ==
    /\ pc = "persist"
    /\ CallStep("persist", "record_forecast_run")
    /\ UNCHANGED <<settings, has_upload, today, horizon, feed, feed_calls, frame,
                   data_source, result, metrics, message, report_path, output,
                   posted, fvars, dvars, svars, ovars>>

\* _persist_run line 164: sync_to_notion(...)
SyncNotion ==
    /\ pc = "sync"
    /\ IF NotionGate(settings.notion_token, settings.notion_database_id)
       THEN CallStep("sync", "log_forecast")
       ELSE SkipStep("sync")
    /\ UNCHANGED <<settings, has_upload, today, horizon, feed, feed_calls, frame,
                   data_source, result, metrics, message, report_path, output,
                   posted, fvars, dvars, svars, ovars>>

\* run() line 67: self._maybe_commit_to_github(...): commit_file, then
\* commit_text, both inside one try/except
CommitGithub ==
    /\ pc = "commit"
    /\ IF GithubGate(settings.github_token, settings.github_repo)
       THEN \E file_ok \in BOOLEAN, text_ok \in BOOLEAN :
               /\ log' = IF file_ok
                         THEN log \o <<Logged("commit_file", TRUE),
                                       Logged("commit_text", text_ok)>>
                         ELSE Append(log, Logged("commit_file", FALSE))
               /\ IF Propagates("commit_file") /\ ~file_ok
                  THEN pc' = "raised" /\ error' = CollaboratorError("commit_file")
                  ELSE IF Propagates("commit_text") /\ file_ok /\ ~text_ok
                  THEN pc' = "raised" /\ error' = CollaboratorError("commit_text")
                  ELSE pc' = StepAfter("commit") /\ error' = error
       ELSE SkipStep("commit")
    /\ UNCHANGED <<settings, has_upload, today, horizon, feed, feed_calls, frame,
                   data_source, result, metrics, message, report_path, output,
                   posted, fvars, dvars, svars, ovars>>

\* the bundle returned with the provenance left at "synthetic"
ReturnDefaultSource ==
    /\ pc = "return"
    /\ output' = [forecast |-> result, message |-> message, report_path |-> report_path,
                  metrics |-> metrics, data_source |-> "synthetic"]
    /\ pc' = "done"
    /\ UNCHANGED <<settings, has_upload, today, horizon, feed, feed_calls, frame,
                   data_source, result, metrics, message, report_path, log, error,
                   posted, fvars, dvars, svars, ovars>>

\* run() lines 68-74: return PipelineOutput(...)
Return ==
    /\ pc = "return"
    /\ output' = [forecast |-> result, message |-> message, report_path |-> report_path,
                  metrics |-> metrics, data_source |-> data_source]
    /\ pc' = "done"
    /\ UNCHANGED <<settings, has_upload, today, horizon, feed, feed_calls, frame,
                   data_source, result, metrics, message, report_path, log, error,
                   posted, fvars, dvars, svars, ovars>>

Next ==
    \/ Resolve
    \/ Shape
    \/ Forecast
    \/ Notify
    \/ Render
    \/ UploadChart
    \/ RecordRun
    \/ SyncNotion
    \/ CommitGithub
    \/ Return

Spec == Init /\ [][Next]_vars

(***************************************************************************)
(* The forecaster primitives called on their own, on every small series.   *)
(***************************************************************************)
\* every sequence over 0..MaxVal of length at most MaxLen
SmallSeqs == UNION {[1..n -> 0..MaxVal] : n \in 0..MaxLen}

FcHorizons == (0 - 1)..MaxFcHorizon

PipelineIdle ==
    /\ settings = [nordpool_api_key |-> FALSE, slack_token |-> FALSE,
                   notion_token |-> FALSE, notion_database_id |-> FALSE,
                   github_token |-> FALSE, github_repo |-> FALSE]
    /\ has_upload = FALSE
    /\ today = 0
    /\ horizon = 0
    /\ pc = "idle"
    /\ feed = NoCall
    /\ feed_calls = 0
    /\ frame = <<>>
    /\ data_source = "none"
    /\ result = None
    /\ metrics = None
    /\ message = None
    /\ report_path = None
    /\ log = <<>>
    /\ error = None
    /\ output = None
    /\ posted = <<>>

FcInit ==
    /\ PipelineIdle
    /\ DbIdle
    /\ SynIdle
    /\ OthersIdle
    /\ \E vals \in SmallSeqs : fc_series = MkSeries(RangeIndex(Len(vals)), vals)
    /\ fc_horizon \in FcHorizons
    /\ fc_pc = "input"
    /\ fc_out = None

\* naive_forecast(fc_series, fc_horizon)
CallNaiveForecast ==
    /\ fc_pc = "input"
    /\ fc_pc' = "called"
    /\ fc_out' = [fn |-> "naive_forecast", res |-> NaiveForecast(fc_series, fc_horizon)]
    /\ UNCHANGED <<fc_series, fc_horizon, pvars, dvars, svars, ovars>>

\* train_test_split(fc_series, fc_horizon)
CallTrainTestSplit ==
    /\ fc_pc = "input"
    /\ fc_pc' = "called"
    /\ fc_out' = [fn |-> "train_test_split", res |-> TrainTestSplit(fc_series, fc_horizon)]
    /\ UNCHANGED <<fc_series, fc_horizon, pvars, dvars, svars, ovars>>

\* run() lines 54-57 on fc_series: split, forecast, metrics, message
CallScore ==
    /\ fc_pc = "input"
    /\ fc_pc' = "called"
    /\ \E split \in {TrainTestSplit(fc_series, fc_horizon)} :
          IF ~split.ok
          THEN fc_out' = [fn |-> "score", res |-> split]
          ELSE \E scored \in {ScoredForecast(fc_series, fc_horizon)} :
                  fc_out' = [fn |-> "score", res |-> scored.res, train |-> split.train,
                             metrics |-> scored.metrics,
                             message |-> BuildMessage(scored.metrics)]
    /\ UNCHANGED <<fc_series, fc_horizon, pvars, dvars, svars, ovars>>

FcNext ==
    \/ CallNaiveForecast
    \/ CallTrainTestSplit
    \/ CallScore

SpecFc == FcInit /\ [][FcNext]_vars

(***************************************************************************)
(* ForecastResult.mape on every pair of small series of equal length.      *)
(***************************************************************************)
\* longest pair of series handed to mape
MaxMetricLen == 3

\* every sequence over 0..MaxVal of length at most MaxMetricLen
MetricSeqs == UNION {[1..n -> 0..MaxVal] : n \in 0..MaxMetricLen}

\* fc_series is y_true; y_pred is chosen by the call
MetricInit ==
    /\ PipelineIdle
    /\ DbIdle
    /\ SynIdle
    /\ OthersIdle
    /\ \E vals \in MetricSeqs : fc_series = MkSeries(RangeIndex(Len(vals)), vals)
    /\ fc_horizon = 0
    /\ fc_pc = "input"
    /\ fc_out = None

\* ForecastResult(y_true=fc_series, y_pred=...).mape()
CallMape ==
    /\ fc_pc = "input"
    /\ fc_pc' = "called"
    /\ \E pred \in [1..SLen(fc_series) -> 0..MaxVal] :
       \E res \in {[y_true |-> fc_series, y_pred |-> MkSeries(fc_series.index, pred)]} :
          fc_out' = [fn |-> "mape", res |-> res, mape |-> Mape(res)]
    /\ UNCHANGED <<fc_series, fc_horizon, pvars, dvars, svars, ovars>>

MetricNext == CallMape

SpecMetric == MetricInit /\ [][MetricNext]_vars

(***************************************************************************)
(* rolling_forecast: the generator it returns, and a consumer that         *)
(* iterates over the returned object once and then again.                  *)
(***************************************************************************)
\* longest series handed to rolling_forecast
MaxRollLen == 5
\* largest horizon and largest window_size handed to rolling_forecast
MaxRollParam == 3
\* largest step_size
MaxRollStep == 2
\* iterations a consumer makes over the returned object
MaxPasses == 2

\* the series of n observations
RollSeries(n) == MkSeries(RangeIndex(n), [i \in 1..n |-> (i * i) % 3])

\* the stop of the range with the + 1 left out
RangeStopExclusive(n, h) == n - h

\* models.py:57: the stop of range(window_size, len(series) - horizon + 1, step)
RangeStop(n, h) == n - h + 1

\* start is a value range(first, stop, step) still has to give (step # 0)
InRange(start, stop, step) == IF step > 0 THEN start < stop ELSE start > stop

\* series.iloc[a:b] with Python's reading of negative and overlong bounds
ILoc(series, a, b) ==
    ILocSlice(series, ClipBound(a, SLen(series)), ClipBound(b, SLen(series)))

\* models.py:58-60: the trial of one start
RollingTrial(series, h, window_size, start) ==
    NaiveForecast(Concat(ILoc(series, start - window_size, start),
                         ILoc(series, start, start + h)), h)

\* rolling_forecast(series, horizon, config): calling a generator function
\* runs none of its body
NewGenerator(args) == [state |-> "created", start |-> args.window_size]

RollInit ==
    /\ PipelineIdle
    /\ FcIdle
    /\ DbIdle
    /\ SynIdle
    /\ clock = 0 /\ plot_files = {} /\ renders = <<>>
    /\ gh_pc = "idle" /\ gh_repo = None /\ gh_http = <<>> /\ gh_sha = None
    /\ \E n \in 0..MaxRollLen, h \in 0..MaxRollParam, w \in 0..MaxRollParam,
          step \in 0..MaxRollStep :
          roll_args = [series |-> RollSeries(n), horizon |-> h, window_size |-> w,
                       step_size |-> step]
    /\ roll_gen = NewGenerator(roll_args)
    /\ roll_passes = <<>>

\* the pass in progress and the passes before it
CurrentPass == roll_passes[Len(roll_passes)]

EndPass(how) ==
    roll_passes' = [roll_passes EXCEPT ![Len(roll_passes)].ended = how]

\* `for trial in returned:` begins; iter() of a generator is the generator
RollIterate ==
    /\ Len(roll_passes) < MaxPasses
    /\ roll_passes # <<>> => CurrentPass.ended # "running"
    /\ roll_passes' = Append(roll_passes, [items |-> <<>>, ended |-> "running"])
    /\ UNCHANGED <<roll_args, roll_gen, pvars, fvars, dvars, svars, cvars, gvars>>

\* next() on the generator: it runs to its next yield, to its end, or raises
RollNext ==
    /\ roll_passes # <<>>
    /\ CurrentPass.ended = "running"
    /\ IF roll_gen.state = "exhausted"
       THEN /\ EndPass("stop")
            /\ UNCHANGED roll_gen
       ELSE IF roll_args.step_size = 0
       THEN \* range() arg 3 must not be zero
            /\ EndPass("raised")
            /\ roll_gen' = [roll_gen EXCEPT !.state = "exhausted"]
       ELSE IF ~InRange(roll_gen.start,
                        RangeStop(SLen(roll_args.series), roll_args.horizon),
                        roll_args.step_size)
       THEN /\ EndPass("stop")
            /\ roll_gen' = [roll_gen EXCEPT !.state = "exhausted"]
       ELSE \E trial \in {RollingTrial(roll_args.series, roll_args.horizon,
                                        roll_args.window_size, roll_gen.start)} :
               IF ~trial.ok
               THEN /\ EndPass("raised")
                    /\ roll_gen' = [roll_gen EXCEPT !.state = "exhausted"]
               ELSE /\ roll_passes' =
                          [roll_passes EXCEPT ![Len(roll_passes)].items =
                              Append(@, [start |-> roll_gen.start,
                                         y_true |-> trial.y_true,
                                         y_pred |-> trial.y_pred])]
                    /\ roll_gen' = [state |-> "suspended",
                                    start |-> roll_gen.start + roll_args.step_size]
    /\ UNCHANGED <<roll_args, pvars, fvars, dvars, svars, cvars, gvars>>

RollNextStep ==
    \/ RollIterate
    \/ RollNext

SpecRoll == RollInit /\ [][RollNextStep]_vars

(***************************************************************************)
(* render_forecast_plot: successive renders into one output directory,     *)
(* against a UTC clock.                                                    *)
(***************************************************************************)
\* the clock is read in ticks; the last tick a render can happen at
MaxClock == 5
\* renders made into the directory
MaxRenders == 3
\* largest horizon_hours drawn into a chart
MaxChartHorizon == 2

\* clock ticks in one second: the clock is finer than the %S field
TicksPerSecond == 2

\* visualization.py:27  datetime.now(UTC).strftime("%Y%m%d_%H%M%S"): the
\* instant cut down to its whole second
StrfTime(ticks) == ticks \div TicksPerSecond

\* visualization.py:28  output_dir / f"forecast_{timestamp}.png"
OutputPath(ticks) == [dir |-> "output_dir", name |-> <<"forecast", StrfTime(ticks), "png">>]

\* the output directory as an entry of the file system
DirEntry == [kind |-> "dir", path |-> "output_dir"]

\* the file at a path, or None
FileAt(files, path) ==
    IF \E e \in files : e.kind = "file" /\ e.path = path
    THEN CHOOSE e \in files : e.kind = "file" /\ e.path = path
    ELSE None

\* visualization.py:25 and 44: mkdir(parents=True, exist_ok=True), then
\* savefig writes the image at output_path, replacing a file already there
SaveFig(files, path, image) ==
    {e \in files : ~(e.kind = "file" /\ e.path = path)}
        \cup {DirEntry, [kind |-> "file", path |-> path, image |-> image]}

ChartInit ==
    /\ PipelineIdle
    /\ FcIdle
    /\ DbIdle
    /\ SynIdle
    /\ roll_args = None /\ roll_gen = None /\ roll_passes = <<>>
    /\ gh_pc = "idle" /\ gh_repo = None /\ gh_http = <<>> /\ gh_sha = None
    /\ clock = 0
    /\ plot_files \in {{}, {DirEntry}}
    /\ renders = <<>>

\* time passes
Tick ==
    /\ clock < MaxClock
    /\ clock' = clock + 1
    /\ UNCHANGED <<plot_files, renders, pvars, fvars, dvars, svars, rvars, gvars>>

\* render_forecast_plot(result, output_dir=..., horizon_hours=...): the image
\* drawn is identified by the render that drew it and its horizon_hours
RenderChart ==
    /\ Len(renders) < MaxRenders
    /\ \E horizon_hours \in 1..MaxChartHorizon :
       \E image \in {[render |-> Len(renders) + 1, horizon_hours |-> horizon_hours]} :
          /\ plot_files' = SaveFig(plot_files, OutputPath(clock), image)
          /\ renders' = Append(renders, [path |-> OutputPath(clock), image |-> image])
    /\ UNCHANGED <<clock, pvars, fvars, dvars, svars, rvars, gvars>>

ChartNext ==
    \/ Tick
    \/ RenderChart

SpecChart == ChartInit /\ [][ChartNext]_vars

(***************************************************************************)
(* _maybe_commit_to_github past its gate: GitHubCommitter.commit_file for  *)
(* the chart, then commit_text for the history document, one HTTP          *)
(* exchange with the contents API at a time.                               *)
(***************************************************************************)
\* github.py:79  if response.status_code == 200
HttpOk == 200
\* github.py:81  if response.status_code == 404
HttpNotFound == 404
\* requests: raise_for_status() raises for the 4xx and 5xx statuses
HttpErrorFrom == 400

\* the two destinations of one run: reports/plots/<name> and
\* reports/history/<stem>.json
Destinations == {"plot", "history"}

\* statuses a lookup can answer besides 200 and 404
OtherLookupStatuses == {204, 304, 403, 500}
\* statuses the API answers a refused or failed PUT with
FailedPutStatuses == {403, 422, 500}

\* the request died without a response (requests.ConnectionError, Timeout)
NoResponse == [kind |-> "exception"]
Response(status, sha) == [kind |-> "response", status |-> status, sha |-> sha]

\* response.raise_for_status()
RaisesForStatus(response) == response.status >= HttpErrorFrom

\* GitHubCommitter._get_existing_sha(url), given the answer to its GET
GetExistingSha(response) ==
    IF response.kind = "exception" THEN [raised |-> TRUE]
    ELSE IF response.status = HttpOk THEN [raised |-> FALSE, sha |-> response.sha]
    ELSE IF response.status = HttpNotFound THEN [raised |-> FALSE, sha |-> None]
    ELSE IF RaisesForStatus(response) THEN [raised |-> TRUE]
    ELSE [raised |-> FALSE, sha |-> None]

\* github.py:48-49, 69-70: if existing_sha: payload["sha"] = existing_sha
PutPayload(content, existing_sha) ==
    IF existing_sha # None
    THEN [content |-> content, sha |-> existing_sha]
    ELSE [content |-> content, sha |-> None]

\* the answers the contents API can give to the lookup of a destination
LookupAnswers(files, dest) ==
    {NoResponse}
        \cup {Response(st, None) : st \in OtherLookupStatuses}
        \cup (IF files[dest] = None THEN {Response(HttpNotFound, None)}
              ELSE {Response(HttpOk, files[dest].sha)})

\* what the contents API does with a PUT it does not fail on: it creates an
\* absent file, updates a file whose SHA the payload names, refuses the rest
PutAccepted(files, dest, payload) ==
    IF files[dest] = None THEN payload.sha = None
    ELSE payload.sha # None /\ payload.sha = files[dest].sha

\* a try block of its own around each commit: the commit after a failed one
\* is still made
AfterFailureContinues(stage) ==
    IF stage \in {"plot_lookup", "plot_put"} THEN "history_lookup" ELSE "caught"

\* pipeline.py:188-214: both commits are in one try; an exception in either
\* goes to the except branch
AfterFailure(stage) == "caught"

\* the destination a stage works on
DestOf(stage) == IF stage \in {"plot_lookup", "plot_put"} THEN "plot" ELSE "history"

\* the content commit_file / commit_text sends
ContentOf(stage) == IF DestOf(stage) = "plot" THEN "chart of this run"
                    ELSE "history of this run"

\* a content SHA the API reports
Sha(name) == [hex |-> name]

AnOldFile == [sha |-> Sha("old"), content |-> "earlier commit"]

GhInit ==
    /\ PipelineIdle
    /\ FcIdle
    /\ DbIdle
    /\ SynIdle
    /\ roll_args = None /\ roll_gen = None /\ roll_passes = <<>>
    /\ clock = 0 /\ plot_files = {} /\ renders = <<>>
    /\ gh_pc = "plot_lookup"
    /\ \E files \in [Destinations -> {None, AnOldFile}] :
          gh_repo = [before |-> files, files |-> files]
    /\ gh_http = <<>>
    /\ gh_sha = None

\* existing_sha = self._get_existing_sha(url)
GhLookup ==
    /\ gh_pc \in {"plot_lookup", "history_lookup"}
    /\ \E response \in LookupAnswers(gh_repo.files, DestOf(gh_pc)) :
       \E existing \in {GetExistingSha(response)} :
          /\ gh_http' = Append(gh_http, [method |-> "GET", dest |-> DestOf(gh_pc),
                                         response |-> response, sha |-> None])
          /\ IF existing.raised
             THEN gh_pc' = AfterFailure(gh_pc) /\ gh_sha' = None
             ELSE /\ gh_pc' = (IF gh_pc = "plot_lookup" THEN "plot_put" ELSE "history_put")
                  /\ gh_sha' = existing.sha
    /\ UNCHANGED <<gh_repo, pvars, fvars, dvars, svars, rvars, cvars>>

\* response = self._session.put(url, json=payload); response.raise_for_status()
GhPut ==
    /\ gh_pc \in {"plot_put", "history_put"}
    /\ \E payload \in {PutPayload(ContentOf(gh_pc), gh_sha)} :
       \E response \in {NoResponse} \cup {Response(st, None) : st \in FailedPutStatuses}
                        \cup (IF PutAccepted(gh_repo.files, DestOf(gh_pc), payload)
                              THEN {Response(IF payload.sha = None THEN 201 ELSE HttpOk,
                                             Sha("new"))}
                              ELSE {}) :
          /\ gh_http' = Append(gh_http, [method |-> "PUT", dest |-> DestOf(gh_pc),
                                         response |-> response, sha |-> payload.sha])
          /\ IF response.kind = "response" /\ ~RaisesForStatus(response)
             THEN /\ gh_repo' = [gh_repo EXCEPT !.files[DestOf(gh_pc)] =
                                     [sha |-> response.sha, content |-> payload.content]]
                  /\ gh_pc' = (IF gh_pc = "plot_put" THEN "history_lookup" ELSE "done")
             ELSE /\ gh_repo' = gh_repo
                  /\ gh_pc' = AfterFailure(gh_pc)
    /\ gh_sha' = None
    /\ UNCHANGED <<pvars, fvars, dvars, svars, rvars, cvars>>

\* the end of the try block or of the except branch: the method returns
GhReturn ==
    /\ gh_pc \in {"done", "caught"}
    /\ gh_pc' = "returned"
    /\ UNCHANGED <<gh_repo, gh_http, gh_sha, pvars, fvars, dvars, svars, rvars, cvars>>

GhNext ==
    \/ GhLookup
    \/ GhPut
    \/ GhReturn

SpecGh == GhInit /\ [][GhNext]_vars

(***************************************************************************)
(* The relational store: record_forecast_run called by one pipeline run     *)
(* after another on the same database.                                     *)
(***************************************************************************)
\* most calls of record_forecast_run in one behaviour
MaxDbRuns == 2
\* longest price series a persisted run forecasts from
MaxDbLen == 3

\* the id an autoincrement integer primary key gives the next row
NextId(rows) ==
    1 + (IF rows = <<>> THEN 0
         ELSE CHOOSE m \in {rows[i].id : i \in 1..Len(rows)} :
                 \A i \in 1..Len(rows) : rows[i].id <= m)

\* s.reindex(idx): the value s has at each label of idx, missing where it has none
Reindex(s, idx) ==
    [i \in 1..Len(idx) |->
        IF \E j \in 1..SLen(s) : s.index[j] = idx[i]
        THEN Val(s.values[CHOOSE j \in 1..SLen(s) : s.index[j] = idx[i]])
        ELSE NaN]

\* logging.py:110-118: one forecast_values row per row of the series frame
\* (one per actual value), ids given in order after the rows already there
ValuesPayload(values, run_id, res) ==
    [i \in 1..SLen(res.y_true) |->
        [id |-> NextId(values) + i - 1,
         run_id |-> run_id,
         timestamp |-> res.y_true.index[i],
         actual |-> res.y_true.values[i],
         forecast |-> Reindex(res.y_pred, res.y_true.index)[i]]]

\* the value rows keyed by the number of run rows instead of the returned id
RecordForecastRunCountsId(store, res, m, h, source, path, now) ==
    [runs |-> Append(store.runs,
                     [id |-> NextId(store.runs), timestamp |-> now, horizon |-> h,
                      data_source |-> source, latest_price |-> m.latest,
                      rmse |-> m.rmse, mae |-> m.mae, mape |-> m.mape,
                      report_path |-> path]),
     values |-> store.values \o ValuesPayload(store.values, Len(store.runs) + 1, res)]

\* record_forecast_run(result, metrics, horizon=, data_source=, report_path=)
\* when its transaction commits: one forecast_runs row, then the value rows
\* carrying the id that insert returned
RecordForecastRun(store, res, m, h, source, path, now) ==
    LET run_id == NextId(store.runs) IN
    [runs |-> Append(store.runs,
                     [id |-> run_id, timestamp |-> now, horizon |-> h,
                      data_source |-> source, latest_price |-> m.latest,
                      rmse |-> m.rmse, mae |-> m.mae, mape |-> m.mape,
                      report_path |-> path]),
     values |-> store.values \o ValuesPayload(store.values, run_id, res)]

\* a forecast_runs row and its forecast_values rows left by an earlier execution
EarlierRun(run_id, first_value_id) ==
    [runs |-> <<[id |-> run_id, timestamp |-> 0, horizon |-> 2,
                 data_source |-> "synthetic", latest_price |-> 1,
                 rmse |-> [sqrt_of |-> <<1, 2>>], mae |-> <<1, 2>>,
                 mape |-> [times |-> 100, mean_of |-> <<>>],
                 report_path |-> [dir |-> "reports/plots", date |-> 0]]>>,
     values |-> [i \in 1..2 |->
                    [id |-> first_value_id + i - 1, run_id |-> run_id, timestamp |-> i,
                     actual |-> i - 1, forecast |-> Val(1)]]]

\* the stores a run may find: empty, one earlier execution, or one earlier
\* execution left after older rows were deleted
StoresBefore ==
    {[runs |-> <<>>, values |-> <<>>], EarlierRun(1, 1), EarlierRun(2, 5)}

\* the price series of the runs: n observations
DbSeries == {MkSeries(RangeIndex(n), [i \in 1..n |-> (i * i) % 3]) : n \in 2..MaxDbLen}

DbInit ==
    /\ PipelineIdle
    /\ FcIdle
    /\ SynIdle
    /\ OthersIdle
    /\ db \in StoresBefore
    /\ db_before = db
    /\ db_log = <<>>

\* one run reaches _persist_run and record_forecast_run commits
RecordRunCommits ==
    /\ Len(db_log) < MaxDbRuns
    /\ \E prices \in DbSeries, source \in {"api", "synthetic"} :
       \E h \in 1..(SLen(prices) - 1) :
       \E scored \in {ScoredForecast(prices, h)} :
          /\ db' = RecordForecastRun(db, scored.res, scored.metrics, h, source,
                                     [dir |-> "reports/plots", date |-> Len(db_log) + 1],
                                     Len(db_log) + 1)
          /\ db_log' = Append(db_log, [horizon |-> h, ok |-> TRUE])
    /\ UNCHANGED <<db_before, pvars, fvars, svars, ovars>>

\* one run reaches _persist_run and record_forecast_run raises: the
\* transaction of engine.begin() is rolled back, _persist_run catches
RecordRunRollsBack ==
    /\ Len(db_log) < MaxDbRuns
    /\ \E prices \in DbSeries :
       \E h \in 1..(SLen(prices) - 1) :
          db_log' = Append(db_log, [horizon |-> h, ok |-> FALSE])
    /\ UNCHANGED <<db, db_before, pvars, fvars, svars, ovars>>

DbNext ==
    \/ RecordRunCommits
    \/ RecordRunRollsBack

SpecDb == DbInit /\ [][DbNext]_vars

(***************************************************************************)
(* _generate_synthetic_frame called again and again on one pipeline object. *)
(***************************************************************************)
\* most calls of _generate_synthetic_frame in one behaviour
MaxSynCalls == 3

\* two consecutive days
SynDates == {d + k : d \in Dates, k \in {0, 1}}

\* horizons on both sides of the change of max(horizon + 48, 72)
SynHorizons == {1, LagLong, LagLong + 1}

SynInit ==
    /\ PipelineIdle
    /\ FcIdle
    /\ DbIdle
    /\ OthersIdle
    /\ syn_calls = <<>>
    /\ syn_rng = None

\* self._generate_synthetic_frame(target_date, horizon): the frame is returned,
\* the generator the call made has drawn `hours` values
CallGenerateSyntheticFrame ==
    /\ Len(syn_calls) < MaxSynCalls
    /\ \E target_date \in SynDates, h \in SynHorizons :
       \E generated \in {GenerateSyntheticFrame(target_date, h)} :
          /\ syn_calls' = Append(syn_calls,
                                 [target_date |-> target_date, horizon |-> h,
                                  DateTime |-> [i \in 1..Len(generated) |->
                                                   generated[i].DateTime.v],
                                  SpotPrice |-> [i \in 1..Len(generated) |->
                                                    generated[i].SpotPrice.v]])
          /\ syn_rng' = Advance(SyntheticRng(target_date), SynHours(h))
    /\ UNCHANGED <<pvars, fvars, dvars, ovars>>

SynNext == CallGenerateSyntheticFrame

SpecSyn == SynInit /\ [][SynNext]_vars

(***************************************************************************)
(* Properties of a run (checked under Spec).                               *)
(***************************************************************************)
\* the calls made so far
Calls == {log[i].call : i \in 1..Len(log)}

\* the calls that failed so far
FailedCalls == {log[i].call : i \in {k \in 1..Len(log) : ~log[k].ok}}

\* place of each collaborator call in the order the specification gives
StepRank(call) ==
    CASE call = "post_message" -> 1
      [] call = "render_forecast_plot" -> 2
      [] call = "upload_file" -> 3
      [] call = "record_forecast_run" -> 4
      [] call = "log_forecast" -> 5
      [] call = "commit_file" -> 6
      [] call = "commit_text" -> 7

\* place of the step a run is about to take, in the same order
PcRank(p) ==
    CASE p = "notify" -> 1
      [] p = "render" -> 2
      [] p = "upload" -> 3
      [] p = "persist" -> 4
      [] p = "sync" -> 5
      [] p = "commit" -> 6
      [] OTHER -> 8

BestEffortCalls ==
    {"upload_file", "record_forecast_run", "log_forecast", "commit_file", "commit_text"}

UploadConfigured == has_upload /\ settings.slack_token
NotionConfigured == settings.notion_token /\ settings.notion_database_id
GithubConfigured == settings.github_token /\ settings.github_repo

\* C1: the calls a run makes occur in the order post_message, chart render,
\* chart upload, database persistence, Notion sync, GitHub commit, and the
\* step a run is about to take comes after every call it has made.
C1_StepsInOrder ==
    /\ \A i, j \in 1..Len(log) : i < j => StepRank(log[i].call) < StepRank(log[j].call)
    /\ \A i \in 1..Len(log) :
          pc \in {"notify", "render", "upload", "persist", "sync", "commit"}
              => StepRank(log[i].call) < PcRank(pc)

\* a finished run that made every call
C1_Witness ==
    /\ pc = "done"
    /\ Calls = {"post_message", "render_forecast_plot"} \cup BestEffortCalls

\* C2: when post_message raises, its exception leaves run(), no later step is
\* made and nothing is returned.
C2_SlackFailureAborts ==
    "post_message" \in FailedCalls =>
        /\ pc = "raised"
        /\ error = CollaboratorError("post_message")
        /\ log = <<Logged("post_message", FALSE)>>
        /\ report_path = None
        /\ output = None

\* a run whose post_message raised
C2_Witness == "post_message" \in FailedCalls /\ pc = "raised"

\* C3: an exception of chart upload, database persistence, Notion sync or
\* GitHub commit never leaves run(); whichever of them failed, the run goes on,
\* every later step whose gate is open is still made, and the run returns a
\* PipelineOutput.
C3_BestEffortFailuresCaught ==
    /\ error \notin {CollaboratorError(c) : c \in BestEffortCalls}
    /\ Calls \cap BestEffortCalls # {} => pc # "raised" /\ (pc = "done" \/ ENABLED Next)
    /\ pc \in {"return", "done"} =>
          /\ "record_forecast_run" \in Calls
          /\ UploadConfigured => "upload_file" \in Calls
          /\ NotionConfigured => "log_forecast" \in Calls
          /\ GithubConfigured => "commit_file" \in Calls
    /\ pc = "done" => output # None /\ error = None

\* a run that returned although all four best-effort steps failed
C3_Witness ==
    /\ pc = "done"
    /\ output # None
    /\ FailedCalls = {"upload_file", "record_forecast_run", "log_forecast", "commit_file"}

\* C4: a best-effort step whose credential is not configured is never called
\* (upload without the Slack token or without a callable upload_file, Notion
\* without token or database id, GitHub without token or repo), and skipping
\* is no error: the other steps are made and the run returns.
C4_UnconfiguredStepsSkipped ==
    /\ ~UploadConfigured => "upload_file" \notin Calls
    /\ ~NotionConfigured => "log_forecast" \notin Calls
    /\ ~GithubConfigured => Calls \cap {"commit_file", "commit_text"} = {}
    /\ pc \in {"upload", "persist", "sync", "commit", "return"} => ENABLED Next
    /\ pc = "done" =>
          /\ output # None /\ error = None
          /\ "record_forecast_run" \in Calls
          /\ UploadConfigured => "upload_file" \in Calls
          /\ NotionConfigured => "log_forecast" \in Calls
          /\ GithubConfigured => "commit_file" \in Calls

\* a run that returned with each gate closed by one missing half
C4_Witness ==
    /\ pc = "done"
    /\ has_upload /\ ~settings.slack_token
    /\ settings.notion_token /\ ~settings.notion_database_id
    /\ ~settings.github_token /\ settings.github_repo
    /\ Calls = {"post_message", "render_forecast_plot", "record_forecast_run"}

\* C5: when at most horizon rows remain after the features are derived and the
\* incomplete rows dropped, run() fails with the not-enough-observations error
\* and has made no call: no message, chart, upload, database row, Notion page
\* or commit.
C5_TooFewRowsFailsBeforeEffects ==
    (pc \notin {"resolve", "shape"} /\ Len(frame) <= horizon) =>
        /\ pc = "raised"
        /\ error = NotEnoughObservationsError
        /\ log = <<>>
        /\ report_path = None
        /\ output = None

\* a run refused with exactly horizon rows left
C5_Witness ==
    /\ pc = "raised"
    /\ error = NotEnoughObservationsError
    /\ horizon >= 1
    /\ Len(frame) = horizon

\* C6: whatever the live feed does, a run with horizon >= 1 whose notifier and
\* chart renderer work does not fail (it reaches forecast and score and
\* returns): the only exceptions that leave run() are theirs.
C6_AlwaysForecasts ==
    (horizon >= 1 /\ pc = "raised") =>
        error \in {CollaboratorError("post_message"),
                   CollaboratorError("render_forecast_plot")}

\* C7: without a live-feed credential the resolver never calls the feed,
\* returns provenance "synthetic", and returns at least horizon observations.
C7_NoCredentialSynthetic ==
    ~settings.nordpool_api_key =>
        /\ feed_calls = 0
        /\ feed = NoCall
        /\ pc # "resolve" => data_source = "synthetic"
        /\ pc = "shape" => Len(frame) >= horizon

\* the resolver has returned, without a credential, for the largest horizon
C7_Witness ==
    /\ ~settings.nordpool_api_key
    /\ pc = "shape"
    /\ horizon = LagLong + 1
    /\ Len(frame) = horizon + SynExtraHours

\* the records of an answer that survive coercion: both cells parse
ParseableCount(rows) ==
    Cardinality({i \in 1..Len(rows) :
                    /\ {"DateTime", "SpotPrice"} \subseteq DOMAIN rows[i]
                    /\ rows[i].DateTime.parses
                    /\ rows[i].SpotPrice.parses})

\* the call returned records that carry the required columns, of which more
\* than horizon parse (an empty answer carries no column)
FeedUsable ==
    /\ feed.kind = "data"
    /\ \E i \in 1..Len(AnswerRows(feed, today)) :
          "DateTime" \in DOMAIN AnswerRows(feed, today)[i]
    /\ \E i \in 1..Len(AnswerRows(feed, today)) :
          "SpotPrice" \in DOMAIN AnswerRows(feed, today)[i]
    /\ ParseableCount(AnswerRows(feed, today)) > horizon

\* C8: with a live-feed credential the resolver calls the feed exactly once,
\* and returns provenance "api" (and the cleaned records) exactly when the
\* call returned records with the required columns of which more than horizon
\* parse; otherwise it returns the synthetic series, provenance "synthetic".
C8_OneCallApiIffEnough ==
    (settings.nordpool_api_key /\ pc # "resolve") =>
        /\ feed_calls = 1
        /\ feed # NoCall
        /\ data_source = (IF FeedUsable THEN "api" ELSE "synthetic")
        /\ pc = "shape" =>
              IF FeedUsable
              THEN Len(frame) = ParseableCount(AnswerRows(feed, today))
              ELSE frame = GenerateSyntheticFrame(today, horizon)

\* the resolver accepted an answer that carried an unparseable record
C8_Witness ==
    /\ settings.nordpool_api_key
    /\ pc = "shape"
    /\ feed.kind = "data"
    /\ feed.bad > 0
    /\ data_source = "api"

\* the chart render was called and returned
RenderPassed == "render_forecast_plot" \in (Calls \ FailedCalls)

\* C14: once post_message and the chart render have returned, run() goes on
\* through the best-effort steps whatever their outcomes and returns a
\* PipelineOutput whose forecast has exactly horizon predicted values, whose
\* message is the one text handed to the notifier, whose metrics are the
\* bundle computed from the forecast, whose report_path is the path the chart
\* render returned and whose data_source is the provenance the resolver gave.
C14_OutputPopulated ==
    /\ RenderPassed =>
          /\ pc \in {"upload", "persist", "sync", "commit", "return", "done"}
          /\ error = None
          /\ pc = "done" \/ ENABLED Next
    /\ pc = "done" =>
          /\ RenderPassed
          /\ output # None
          /\ output.forecast = result
          /\ Len(output.forecast.y_pred.values) = horizon
          /\ posted = <<output.message>>
          /\ output.message = BuildMessage(output.metrics)
          /\ output.metrics = CollectMetrics(output.forecast)
          /\ output.report_path # None
          /\ output.report_path = report_path
          /\ output.data_source
                = (IF settings.nordpool_api_key /\ FeedUsable THEN "api" ELSE "synthetic")

\* a run on live data that returned although best-effort steps failed
C14_Witness ==
    /\ pc = "done"
    /\ output # None
    /\ output.data_source = "api"
    /\ horizon >= 2
    /\ {"record_forecast_run", "commit_file"} \subseteq FailedCalls

\* C16: a run ends in one of two ways: it returns a populated PipelineOutput,
\* or one exception leaves run() and that exception is the insufficient-data
\* error, a bad-split-parameter error, or the failure of post_message; no
\* other exception leaves run().
C16_OnlyThreeFatalErrors ==
    /\ pc = "raised" =>
          /\ output = None
          /\ error \in {NotEnoughObservationsError, InsufficientDataError,
                         TestSizeNotPositiveError, TestSizeTooLargeError,
                         CollaboratorError("post_message")}
    /\ pc = "done" =>
          /\ error = None
          /\ output # None
          /\ output.forecast # None /\ output.message # None
          /\ output.metrics # None /\ output.report_path # None

\* C17: the frame the resolver returns, from the live feed or synthetic, has
\* strictly increasing timestamps (so no timestamp twice), whatever order and
\* repetitions the records of the feed answer had.
C17_TimestampsStrictlyIncreasing ==
    pc = "shape" =>
        \A i \in 1..(Len(frame) - 1) : frame[i].DateTime.v < frame[i + 1].DateTime.v

(***************************************************************************)
(* Properties of the store (checked under SpecDb).                         *)
(***************************************************************************)
\* the calls of record_forecast_run that committed
CommittedRuns == {i \in 1..Len(db_log) : db_log[i].ok}

\* the value rows that reference the run row of id run_id
ValuesOf(run_id) == {j \in 1..Len(db.values) : db.values[j].run_id = run_id}

\* C15: after N runs whose record_forecast_run committed (and any number
\* whose call raised), the store holds the rows it held before, exactly N more
\* forecast_runs rows and exactly one more forecast_values row per horizon
\* step of each of them (N * horizon for runs of one horizon); every
\* forecast_values row references an existing forecast_runs row, and each new
\* run row is referenced by exactly horizon value rows.
C15_OneRunRowHorizonValueRows ==
    /\ Len(db.runs) = Len(db_before.runs) + Cardinality(CommittedRuns)
    /\ Len(db.values) = Len(db_before.values)
                          + SumSeq([i \in 1..Len(db_log) |->
                                       IF db_log[i].ok THEN db_log[i].horizon ELSE 0])
    /\ SubSeq(db.runs, 1, Len(db_before.runs)) = db_before.runs
    /\ SubSeq(db.values, 1, Len(db_before.values)) = db_before.values
    /\ \A j \in 1..Len(db.values) :
          \E k \in 1..Len(db.runs) : db.runs[k].id = db.values[j].run_id
    /\ \A k, l \in 1..Len(db.runs) : db.runs[k].id = db.runs[l].id => k = l
    /\ \A j, l \in 1..Len(db.values) : db.values[j].id = db.values[l].id => j = l
    /\ \A k \in (Len(db_before.runs) + 1)..Len(db.runs) :
          Cardinality(ValuesOf(db.runs[k].id)) = db.runs[k].horizon

\* two committed runs of different horizons on a store that held rows before
C15_Witness ==
    /\ db_before.runs # <<>>
    /\ Cardinality(CommittedRuns) >= 2
    /\ \E i, j \in CommittedRuns : db_log[i].horizon # db_log[j].horizon

C24_SyntheticHourlyEndingAtTargetDate ==
    \A c \in 1..Len(syn_calls) :
        LET stamps == syn_calls[c].DateTime
            h == syn_calls[c].horizon
        IN  /\ Len(stamps) = (IF h + 48 >= 72 THEN h + 48 ELSE 72)
            /\ Len(syn_calls[c].SpotPrice) = Len(stamps)
            /\ \A i \in 2..Len(stamps) : stamps[i] = stamps[i - 1] + 1
            /\ stamps[Len(stamps)] = 24 * syn_calls[c].target_date

\* a call below the floor of 72 hours and a call above it
C24_Witness ==
    \E a, b \in 1..Len(syn_calls) :
        /\ syn_calls[a].horizon + 48 < 72
        /\ Len(syn_calls[a].DateTime) = 72
        /\ syn_calls[b].horizon + 48 > 72
        /\ Len(syn_calls[b].DateTime) = syn_calls[b].horizon + 48

\* C27: with synthetic data and horizon >= 1 the shaped frame has
\* max(horizon + 48, 72) - 24 rows, which is more than horizon, so VALIDATE
\* does not fail, neither do train_test_split and naive_forecast, and the run
\* reaches the Slack post.
C27_SyntheticPassesValidate ==
    (data_source = "synthetic" /\ horizon >= 1 /\ pc \notin {"resolve", "shape"}) =>
        /\ pc \in {"forecast", "notify"} =>
              /\ Len(frame) = (IF horizon + 48 >= 72 THEN horizon + 48 ELSE 72) - 24
              /\ Len(frame) > horizon
        /\ pc = "raised" => "post_message" \in Calls
        /\ pc # "forecast" => (message # None /\ result # None)

\* the feed answered too little, the synthetic series stood in for it, and
\* the message of a run over more than a day was posted
C27_Witness ==
    /\ data_source = "synthetic"
    /\ feed_calls = 1
    /\ horizon > LagLong
    /\ posted # <<>>
    /\ log[1] = Logged("post_message", TRUE)

\* C28: a run with horizon <= 0 fails with the bad-split-parameter error of
\* train_test_split, VALIDATE letting it pass, and it fails before any side
\* effect: nothing is posted, rendered, persisted or committed.
C28_NonPositiveHorizonBadSplit ==
    (horizon <= 0 /\ pc \notin {"resolve", "shape", "forecast"}) =>
        /\ pc = "raised"
        /\ error = TestSizeNotPositiveError
        /\ log = <<>>
        /\ posted = <<>>
        /\ report_path = None
        /\ output = None

\* C29: when the chart render raises, its exception leaves run(); chart
\* upload, database persistence, Notion sync and GitHub commit are not
\* attempted; and the Slack message of the run was posted exactly once.
C29_RenderFailureAfterPost ==
    "render_forecast_plot" \in FailedCalls =>
        /\ pc = "raised"
        /\ error = CollaboratorError("render_forecast_plot")
        /\ log = <<Logged("post_message", TRUE), Logged("render_forecast_plot", FALSE)>>
        /\ posted = <<message>>
        /\ report_path = None
        /\ output = None

\* the render raised in a run with every optional integration configured
C29_Witness ==
    /\ "render_forecast_plot" \in FailedCalls
    /\ pc = "raised"
    /\ UploadConfigured
    /\ NotionConfigured
    /\ GithubConfigured
    /\ Len(posted) = 1

(***************************************************************************)
(* Properties of the forecaster primitives (checked under SpecFc).         *)
(***************************************************************************)
NaiveCalled == fc_pc = "called" /\ fc_out.fn = "naive_forecast"

\* C9: for 1 <= horizon < len(s), every predicted value equals s[-horizon-1],
\* the last value before the holdout window.
C9_PredictsLastBeforeHoldout ==
    (NaiveCalled /\ 1 <= fc_horizon /\ fc_horizon < SLen(fc_series)) =>
        /\ fc_out.res.ok
        /\ \A i \in 1..SLen(fc_out.res.y_pred) :
              fc_out.res.y_pred.values[i] = fc_series.values[SLen(fc_series) - fc_horizon]

\* C10: for horizon > len(s), naive_forecast fails with the insufficient-data
\* error and returns no ForecastResult.
C10_HorizonBeyondSeriesInsufficient ==
    (NaiveCalled /\ fc_horizon > SLen(fc_series)) =>
        /\ ~fc_out.res.ok
        /\ fc_out.res.error = InsufficientDataError

\* the observations of fc_series at positions a..b, with their index labels
Observations(a, b) ==
    MkSeries(SubSeq(fc_series.index, a, b), SubSeq(fc_series.values, a, b))

\* C11: every ForecastResult naive_forecast(s, horizon) returns has exactly
\* horizon actual and horizon predicted values, the actual values are the last
\* horizon observations of s, and the predicted values carry the index of the
\* actual ones, in the same order.
C11_ResultCoversHorizon ==
    (NaiveCalled /\ fc_out.res.ok) =>
        /\ SLen(fc_out.res.y_true) = fc_horizon
        /\ Len(fc_out.res.y_pred.values) = fc_horizon
        /\ Len(fc_out.res.y_pred.index) = fc_horizon
        /\ fc_horizon <= SLen(fc_series)
        /\ fc_out.res.y_true
              = Observations(SLen(fc_series) - fc_horizon + 1, SLen(fc_series))
        /\ fc_out.res.y_pred.index = fc_out.res.y_true.index

\* a result for a holdout of several values that is a proper part of the series
C11_Witness ==
    /\ NaiveCalled
    /\ fc_out.res.ok
    /\ fc_horizon >= 2
    /\ fc_horizon < SLen(fc_series)

SplitCalled == fc_pc = "called" /\ fc_out.fn = "train_test_split"

\* C12: train_test_split(series, test_size) raises its ValueError and returns
\* no split for every test_size <= 0 and every test_size >= len(series), and
\* returns a split for every test_size with 0 < test_size < len(series).
C12_SplitRejectsOutOfRange ==
    SplitCalled =>
        IF fc_horizon <= 0 \/ fc_horizon >= SLen(fc_series)
        THEN /\ ~fc_out.res.ok
             /\ fc_out.res.error \in {TestSizeNotPositiveError, TestSizeTooLargeError}
             /\ DOMAIN fc_out.res = {"ok", "error"}
        ELSE /\ fc_out.res.ok
             /\ DOMAIN fc_out.res = {"ok", "train", "test"}

\* a split refused because test_size is the whole length of a non-empty series
C12_Witness ==
    /\ SplitCalled
    /\ SLen(fc_series) >= 1
    /\ fc_horizon = SLen(fc_series)
    /\ ~fc_out.res.ok

\* C13: for every valid test_size, test is exactly the trailing test_size
\* elements, train is exactly the elements before them, train is not empty,
\* and train followed by test is the input series, in order.
C13_SplitPartitionsSeries ==
    (SplitCalled /\ fc_out.res.ok) =>
        /\ fc_out.res.test
              = Observations(SLen(fc_series) - fc_horizon + 1, SLen(fc_series))
        /\ fc_out.res.train = Observations(1, SLen(fc_series) - fc_horizon)
        /\ SLen(fc_out.res.train) >= 1
        /\ SLen(fc_out.res.test) = fc_horizon
        /\ fc_out.res.train.index \o fc_out.res.test.index = fc_series.index
        /\ fc_out.res.train.values \o fc_out.res.test.values = fc_series.values

\* a split with several elements on each side
C13_Witness ==
    /\ SplitCalled
    /\ fc_out.res.ok
    /\ SLen(fc_out.res.train) >= 2
    /\ SLen(fc_out.res.test) >= 2

ScoreCalled == fc_pc = "called" /\ fc_out.fn = "score" /\ fc_out.res.ok

\* C19: for a holdout of at least two points, latest is the last predicted
\* value, previous is the last training value (the last observation before
\* the holdout, not a value inside it), and delta_pct is
\* (latest - previous) / previous * 100, or 0 when previous is 0.
C19_PreviousIsLastTrainingValue ==
    (ScoreCalled /\ fc_horizon >= 2) =>
        /\ fc_out.metrics.latest = fc_out.res.y_pred.values[fc_horizon]
        /\ fc_out.metrics.previous = fc_out.train.values[SLen(fc_out.train)]
        /\ fc_out.metrics.delta_pct
              = (IF fc_out.metrics.previous = 0 THEN <<0, 1>>
                 ELSE <<(fc_out.metrics.latest - fc_out.metrics.previous) * 100,
                        fc_out.metrics.previous>>)

\* C20: with horizon 1 (a holdout of one point) previous equals latest,
\* delta_pct is exactly 0, and the message shows the upward arrow and 0.0%.
C20_SinglePointHoldoutZeroDelta ==
    (ScoreCalled /\ fc_horizon = 1) =>
        /\ SLen(fc_out.res.y_true) = 1
        /\ fc_out.metrics.previous = fc_out.metrics.latest
        /\ fc_out.metrics.delta_pct[1] = 0
        /\ fc_out.metrics.delta_pct[2] # 0
        /\ fc_out.message.direction = "up"
        /\ fc_out.message.delta_pct = fc_out.metrics.delta_pct

\* a one-point holdout whose forecast differs from the last training value
C20_Witness ==
    /\ ScoreCalled
    /\ fc_horizon = 1
    /\ fc_out.metrics.latest # 0
    /\ fc_out.metrics.latest # fc_out.train.values[SLen(fc_out.train)]

(***************************************************************************)
(* Properties of mape (checked under SpecMetric).                          *)
(***************************************************************************)
MapeCalled == fc_pc = "called" /\ fc_out.fn = "mape"

\* the positions whose actual value is not 0
NonZeroActuals == {i \in 1..SLen(fc_series) : fc_series.values[i] # 0}

\* C21: mape is 100 times the mean of |actual_i - predicted_i| / |actual_i|
\* taken over exactly the positions with actual_i # 0, in order: a position
\* with actual_i = 0 adds neither a term nor to the count, and no quotient
\* has divisor 0.
C21_MapeSkipsZeroActuals ==
    MapeCalled =>
        /\ fc_out.mape.times = 100
        /\ Len(fc_out.mape.mean_of) = Cardinality(NonZeroActuals)
        /\ \A i \in NonZeroActuals :
              fc_out.mape.mean_of[Cardinality({j \in NonZeroActuals : j <= i})]
                = <<Abs(fc_series.values[i] - fc_out.res.y_pred.values[i]),
                    Abs(fc_series.values[i])>>
        /\ \A k \in 1..Len(fc_out.mape.mean_of) : fc_out.mape.mean_of[k][2] # 0

\* a zero actual with a wrong prediction between two non-zero actuals
C21_Witness ==
    /\ MapeCalled
    /\ SLen(fc_series) >= 3
    /\ fc_series.values[1] # 0
    /\ fc_series.values[2] = 0
    /\ fc_out.res.y_pred.values[2] # 0
    /\ fc_series.values[3] # 0
    /\ Len(fc_out.mape.mean_of) = 2

(***************************************************************************)
(* Properties of rolling_forecast (checked under SpecRoll).                *)
(***************************************************************************)
\* the starts window_size, window_size + step_size, ... up to len - horizon
ExpectedStarts ==
    {st \in roll_args.window_size..(SLen(roll_args.series) - roll_args.horizon) :
        (st - roll_args.window_size) % roll_args.step_size = 0}

\* series[start : start + horizon] of the series handed in
SeriesSlice(start) ==
    MkSeries(SubSeq(roll_args.series.index, start + 1, start + roll_args.horizon),
             SubSeq(roll_args.series.values, start + 1, start + roll_args.horizon))

\* C22: for horizon >= 1 and step_size >= 1, iterating over what
\* rolling_forecast returned yields one ForecastResult per start
\* window_size, window_size + step_size, ... <= len(series) - horizon, in
\* increasing order of start and none besides; the trial of a start has
\* actual = series[start : start + horizon]; the iteration ends, and it
\* yields nothing when len(series) - horizon < window_size.
C22_OneTrialPerStart ==
    (roll_args.horizon >= 1 /\ roll_args.step_size >= 1 /\ roll_passes # <<>>) =>
        LET items == roll_passes[1].items IN
        /\ Len(items) <= Cardinality(ExpectedStarts)
        /\ \A k \in 1..Len(items) :
              /\ items[k].start = roll_args.window_size + (k - 1) * roll_args.step_size
              /\ items[k].start \in ExpectedStarts
              /\ items[k].y_true = SeriesSlice(items[k].start)
        /\ roll_passes[1].ended # "raised"
        /\ roll_passes[1].ended = "stop" => Len(items) = Cardinality(ExpectedStarts)
        /\ (roll_passes[1].ended = "stop"
              /\ SLen(roll_args.series) - roll_args.horizon < roll_args.window_size)
             => items = <<>>

\* a finished iteration that yielded several trials, the last one ending
\* exactly at the end of the series
C22_Witness ==
    /\ roll_passes # <<>>
    /\ roll_passes[1].ended = "stop"
    /\ roll_args.horizon >= 2
    /\ roll_args.step_size >= 2
    /\ roll_args.window_size >= 1
    /\ Len(roll_passes[1].items) >= 2
    /\ roll_passes[1].items[Len(roll_passes[1].items)].start
          = SLen(roll_args.series) - roll_args.horizon

\* C23: iterating a second time over what rolling_forecast returned yields
\* the same ForecastResults in the same order as the first time.
C23_Reiterable ==
    (roll_args.horizon >= 1 /\ roll_args.step_size >= 1
        /\ Len(roll_passes) >= 2 /\ roll_passes[2].ended # "running") =>
        roll_passes[2] = roll_passes[1]

(***************************************************************************)
(* Properties of render_forecast_plot (checked under SpecChart).           *)
(***************************************************************************)
\* C25: across any sequence of renders into the same output directory every
\* render returns a path distinct from all earlier renders, so no later
\* render overwrites an earlier render's file; the file exists at the
\* returned path and its directory exists.
C25_RendersNeverCollide ==
    /\ \A i, j \in 1..Len(renders) : i # j => renders[i].path # renders[j].path
    /\ \A i \in 1..Len(renders) :
          /\ DirEntry \in plot_files
          /\ FileAt(plot_files, renders[i].path) # None
          /\ FileAt(plot_files, renders[i].path).image = renders[i].image

(***************************************************************************)
(* Properties of the GitHub commit step (checked under SpecGh).            *)
(***************************************************************************)
\* the exchange i of gh_http got a response with this status
Answered(i, status) ==
    gh_http[i].response.kind = "response" /\ gh_http[i].response.status = status

\* the exchange i failed: no response, or a 4xx/5xx status
Failed(i) ==
    gh_http[i].response.kind = "exception" \/ gh_http[i].response.status >= 400

\* C26: a PUT follows the lookup of its destination and carries the existing
\* SHA if and only if that lookup answered 200; after a 404 the PUT is sent
\* without a SHA; after any other lookup status the commit raises and no PUT
\* is sent.
C26_CreateOrUpdate ==
    /\ \A i \in 1..Len(gh_http) :
          gh_http[i].method = "PUT" =>
             /\ i > 1
             /\ gh_http[i - 1].method = "GET"
             /\ gh_http[i - 1].dest = gh_http[i].dest
             /\ Answered(i - 1, 200) \/ Answered(i - 1, 404)
             /\ (gh_http[i].sha # None) <=> Answered(i - 1, 200)
             /\ Answered(i - 1, 200) => gh_http[i].sha = gh_http[i - 1].response.sha
    /\ \A i \in 1..Len(gh_http) :
          (gh_http[i].method = "GET" /\ ~Answered(i, 200) /\ ~Answered(i, 404)) =>
             /\ i = Len(gh_http)
             /\ gh_pc \in {"caught", "returned"}

\* the requests made for a destination
RequestsFor(dest) == {i \in 1..Len(gh_http) : gh_http[i].dest = dest}

\* the chart commit failed: its lookup raised or its PUT failed
ChartCommitFailed ==
    \/ \E i \in RequestsFor("plot") : gh_http[i].method = "PUT" /\ Failed(i)
    \/ /\ \E i \in RequestsFor("plot") : gh_http[i].method = "GET"
       /\ \A i \in RequestsFor("plot") : gh_http[i].method = "GET"
       /\ gh_pc \notin {"plot_lookup", "plot_put"}

\* C30: every request for the history document comes after a PUT of the
\* chart that succeeded; once the chart commit has failed, no request for the
\* history document is made, the failure is caught and the method returns,
\* and the repository's history document is what it was before the run.
C30_HistoryOnlyAfterChart ==
    /\ \A j \in RequestsFor("history") :
          \E i \in RequestsFor("plot") :
             i < j /\ gh_http[i].method = "PUT" /\ ~Failed(i)
    /\ ChartCommitFailed =>
          /\ RequestsFor("history") = {}
          /\ gh_pc \in {"caught", "returned"}
          /\ gh_repo.files["history"] = gh_repo.before["history"]

\* the chart's lookup passed, its PUT was refused, and the method returned
C30_Witness ==
    /\ gh_pc = "returned"
    /\ Len(gh_http) = 2
    /\ gh_http[2].method = "PUT"
    /\ gh_http[2].dest = "plot"
    /\ Failed(2)
    /\ gh_repo.files = gh_repo.before

=============================================================================
